---------------------------- MODULE Spec2Model ----------------------------
(***************************************************************************)
(* The asynchronous DP pipeline of the Kangaroo client: DPQueue            *)
(* (src/DPQueue.h, the revision with the batching window, lines 299-594),  *)
(* its producers (the compute lanes), its consumer (the network sender)    *)
(* and the thread that requests shutdown, as the client wires them         *)
(* together (src/ASYNC_NETWORK_IMPLEMENTATION.md).                         *)
(*                                                                         *)
(* Every thread is a small program counter machine.  The queue mutex is a  *)
(* variable; a step that the code executes with the mutex held is guarded  *)
(* by it.  Time is a discrete clock: Tick lets one clock period pass, and  *)
(* a timed wait carries the number of periods left until its deadline.     *)
(* Both builds of the header are modelled: the pthread build (condition    *)
(* variable, absolute deadline) and the WIN64 build (auto-reset event,     *)
(* relative timeout); the variable win64 says which one runs.              *)
(*                                                                         *)
(* The other end of the pipeline is modelled next to it: the server's hash *)
(* table of DPs with its collision check and key check, as the debug guide *)
(* (src/unnamed/part_000) shows them at work, and the kangaroos whose      *)
(* distances the key check combines.                                       *)
(***************************************************************************)
EXTENDS Integers, Sequences, FiniteSets, TLC

(***************************************************************************)
(* Bounds of the model.                                                    *)
(***************************************************************************)
NLanes == 2        \* producer lanes
MaxItems == 2      \* DPs all lanes together produce in a run
MaxCount == 2      \* largest maxCount handed to pop_batch
MaxTimeout == 1    \* largest timeout handed to pop_batch, in clock periods
\* The soft bound on the queue depth (1M DPs in the description of the
\* backpressure), scaled so that the lanes can produce two DPs beyond it.
SoftBound == MaxItems - 2
\* Kangaroos a lane runs; its DPs come from them in turn.
KangPerLane == 2

\* The server: buckets of the hash table, x values, largest distance of a DP
\* handed to Add, Adds in a run, connection handlers, order of the group.
HashSize == 2
NX == 3
MaxDist == 3
MaxAdds == 3
NHandlers == 2
GroupOrder == 5

\* The kangaroos: size of the jump table, largest start of a tame kangaroo,
\* jumps in a run.
NJumps == 2
MaxStart == 1
MaxJumps == 6

\* The steady-load scenario: one lane pushes one DP every PushPeriodMs and the
\* consumer calls pop_batch(ScenarioMaxCount) in a loop.
PushPeriodMs == 10
ScenarioMaxCount == 64
ScenarioItems == 130   \* DPs the lane pushes before it stops

(***************************************************************************)
(* Program constants.                                                      *)
(***************************************************************************)
batching_delay_ms == 50
default_timeout_ms == 1000   \* double timeout_sec = 1.0
FREE == 0          \* the mutex after pthread_mutex_init / CreateMutex

\* The two results of a timed wait the code tells apart.
ETIMEDOUT == "ETIMEDOUT"     \* pthread ETIMEDOUT / WIN64 WAIT_TIMEOUT
WAIT_OBJECT_0 == "signalled" \* pthread 0 / WIN64 WAIT_OBJECT_0

Lanes == 1..NLanes
RECURSIVE SumTo(_, _)
SumTo(f, n) == IF n = 0 THEN 0 ELSE f[n] + SumTo(f, n - 1)

NetId == NLanes + 1      \* the network sender thread
MainId == NLanes + 2     \* the thread that shuts the client down

VARIABLES
  win64,        \* TRUE: the WIN64 build, FALSE: the pthread build
  tick_ms,      \* length of one clock period in milliseconds
  budget,       \* DPs the lanes produce in a run
  \* ---- DPQueue members
  queue,        \* std::queue<DPITEM>
  shutdown,     \* bool shutdown
  totalPushed,  \* uint64_t totalPushed
  totalPopped,  \* uint64_t totalPopped
  mutex,        \* FREE or the id of the thread that holds it
  notEmpty,     \* WIN64: the auto-reset event is signalled; pthread: unused
  \* ---- producer lanes
  pc,           \* pc[p]: "idle", "lock", "enq", "count"
  pending,      \* pending[p]: the items of the push / push_batch in progress
  produced,     \* produced[p]: DPs lane p has produced so far
  \* ---- the consumer's pop_batch call
  cpc,          \* position inside pop_batch
  dps, threadIds, gpuIds,   \* the three output vectors
  maxCount,     \* argument maxCount
  timeout,      \* argument timeout_sec, in clock periods
  timer,        \* clock periods left until the deadline of the current wait
  result,       \* result of the last timed wait
  ret,          \* the value pop_batch returns
  \* ---- requestShutdown
  mpc,          \* "idle", "lock", "done"; "joined" after pthread_join
  \* ---- history (not read by the program)
  delivered,    \* the DPITEMs returned by all finished pop_batch calls
  exitPath,     \* which return statement the current pop_batch call took
  waited,       \* clock periods the current call spent waiting for a first item
  lastWait,     \* clock periods the last batching wait lasted
  poppedAtCall, \* totalPopped when the current pop_batch call began
  qAtLock,      \* the queue when the current call first took the mutex
  callAfterShutdown,  \* requestShutdown had returned when the call began
  held,         \* clock periods since the current call collected its first item
  \* ---- the client around the queue
  npc,          \* position of NetworkThread; "off": pop_batch is called freely
  networkThreadRunning,   \* bool networkThreadRunning
  sends,        \* the SendToServer calls so far: [batch, ok]
  atStop,       \* pushed DPs, depth and thread position when shutdown began
  nextPush,     \* clock periods until the periodic producer pushes again
  \* ---- the server: DP store, collision check, connection handlers
  key,          \* the private key searched for: P = key * G
  table,        \* table[h]: the bucket of hash h, a sorted sequence of entries
  collisionInSameHerd,   \* the same-herd collision counter of the statistics
  events,       \* collision events waiting for the key check
  endOfSearch,  \* the key was found: everybody stops
  foundKey,     \* the key the check accepted
  resets,       \* kangaroos the server told a client to reset
  shardLock,    \* shardLock[s]: FREE or the handler that holds the lock
  hpc,          \* hpc[t]: position of connection handler t
  hdp,          \* hdp[t]: the DP handler t is adding
  hhit,         \* hhit[t]: what handler t's search of the bucket found
  \* ---- history of the server (not read by the program)
  emitted,      \* every collision event ever emitted
  addLog,       \* every finished Add: the DP, what was stored, the result
  checked,      \* every key check: the event and its outcome
  \* ---- the kangaroos of a client
  kang,         \* kang[k]: position and distance of kangaroo k
  jumps         \* jumps made so far

qvars == <<queue, shutdown, totalPushed, totalPopped>>
lanevars == <<pc, pending, produced>>
outvars == <<dps, threadIds, gpuIds>>
argvars == <<maxCount, timeout>>
histvars == <<delivered, exitPath, waited, lastWait, poppedAtCall, qAtLock,
              callAfterShutdown, held>>
buildvars == <<win64, tick_ms, budget>>
netvars == <<npc, networkThreadRunning, sends, atStop>>
envvars == <<netvars, nextPush>>
storevars == <<table, collisionInSameHerd, events, emitted, addLog>>
checkvars == <<endOfSearch, foundKey, resets, checked>>
handlervars == <<shardLock, hpc, hdp, hhit>>
servervars == <<key, storevars, checkvars, handlervars>>
walkvars == <<kang, jumps>>
pipevars == <<buildvars, qvars, mutex, notEmpty, lanevars, cpc, outvars, argvars,
              timer, result, ret, mpc, histvars, envvars>>
vars == <<pipevars, servervars, walkvars>>

(***************************************************************************)
(* Data.                                                                   *)
(***************************************************************************)
\* The k-th DP lane p finds.
\* Herds, as the server prints them: kType=0 (TAME), kType=1 (WILD).
TAME == 0
WILD == 1

\* kType = kIdx % 2
KType(kIdx) == kIdx % 2

\* The kangaroo that emits the k-th DP of lane p: the lane's kangaroos have
\* consecutive indices, so that half of them are even and half odd.
KangarooOf(p, k) == (p - 1) * KangPerLane + ((k - 1) % KangPerLane)

\* ITEM { x, d, kIdx, h }: lane and seq stand for the point and the distance,
\* kIdx is the index of the kangaroo that found it.
NewDP(p, k) == [lane |-> p, seq |-> k, kIdx |-> KangarooOf(p, k)]

\* The gpuId a lane passes with its DPs.
LaneGpu(p) == p - 1

\* An item that keeps the kangaroo index without its lowest bit.
DPITEMWithoutParity(dp, threadId, gpuId) ==
  [dp |-> [dp EXCEPT !.kIdx = @ \div 2], threadId |-> threadId, gpuId |-> gpuId]

\* DPITEM item; item.dp = dp; item.threadId = threadId; item.gpuId = gpuId;
DPITEM(dp, threadId, gpuId) == [dp |-> dp, threadId |-> threadId, gpuId |-> gpuId]

\* The vector of the next n DPs of lane p.
NextDPs(p, n) == [i \in 1..n |-> NewDP(p, produced[p] + i)]

\* batching_delay_ms in clock periods.
BatchDelayTicks == batching_delay_ms \div tick_ms

WaitStates == {"wait_first", "wait_batch"}

(***************************************************************************)
(* The wake signal.  pthread: pthread_cond_signal / pthread_cond_broadcast *)
(* release the consumer if it is blocked in pthread_cond_timedwait and are *)
(* lost otherwise.  WIN64: SetEvent leaves the auto-reset event signalled  *)
(* until a wait consumes it.                                               *)
(***************************************************************************)
Woken(state) == IF state = "wait_first" THEN "woke_first" ELSE "woke_batch"

\* A wake signal that is never sent.
SignalLost == UNCHANGED <<notEmpty, cpc, result>>

Signal ==
  IF win64
  THEN /\ notEmpty' = TRUE
       /\ UNCHANGED <<cpc, result>>
  ELSE /\ notEmpty' = notEmpty
       /\ IF cpc \in WaitStates
          THEN cpc' = Woken(cpc) /\ result' = WAIT_OBJECT_0
          ELSE UNCHANGED <<cpc, result>>

(***************************************************************************)
(* Producer lanes: push and push_batch.                                    *)
(***************************************************************************)
\* A push that would refuse to start above the soft bound.  Neither push nor
\* push_batch has such a test: this is the variant the backpressure describes.
PushCallThrottled(p) ==
  /\ Len(queue) <= SoftBound
  /\ pc[p] = "idle"
  /\ SumTo(produced, NLanes) < budget
  /\ pending' = [pending EXCEPT ![p] = NextDPs(p, 1)]
  /\ produced' = [produced EXCEPT ![p] = @ + 1]
  /\ pc' = [pc EXCEPT ![p] = "lock"]
  /\ UNCHANGED <<buildvars, servervars, walkvars, qvars, mutex, notEmpty, cpc, outvars, argvars,
                 timer, result, ret, mpc, histvars>>

\* push(dp, threadId, gpuId): the call, up to the mutex.
PushCall(p) ==
  /\ pc[p] = "idle"
  /\ SumTo(produced, NLanes) < budget
  /\ pending' = [pending EXCEPT ![p] = NextDPs(p, 1)]
  /\ produced' = [produced EXCEPT ![p] = @ + 1]
  /\ pc' = [pc EXCEPT ![p] = "lock"]
  /\ UNCHANGED <<buildvars, servervars, walkvars, qvars, mutex, notEmpty, cpc, outvars, argvars,
                 timer, result, ret, mpc, histvars>>

\* push_batch(dps, threadId, gpuId): if (dps.empty()) return; else up to the mutex.
PushBatchCall(p, n) ==
  /\ pc[p] = "idle"
  /\ SumTo(produced, NLanes) + n <= budget
  /\ pending' = [pending EXCEPT ![p] = NextDPs(p, n)]
  /\ produced' = [produced EXCEPT ![p] = @ + n]
  /\ pc' = [pc EXCEPT ![p] = IF n = 0 THEN "idle" ELSE "lock"]
  /\ UNCHANGED <<buildvars, servervars, walkvars, envvars, qvars, mutex, notEmpty, cpc, outvars, argvars,
                 timer, result, ret, mpc, histvars>>

\* pthread_mutex_lock(&mutex) / WaitForSingleObject(mutex, INFINITE)
PushLock(p) ==
  /\ pc[p] = "lock"
  /\ mutex = FREE
  /\ mutex' = p
  /\ pc' = [pc EXCEPT ![p] = "enq"]
  /\ UNCHANGED <<buildvars, servervars, walkvars, envvars, qvars, notEmpty, pending, produced, cpc, outvars,
                 argvars, timer, result, ret, mpc, histvars>>

\* The queue after queue.push(item) for every item of the vector, in order.
EnqueuedAtFront(q, items, threadId, gpuId) ==
  [i \in 1..Len(items) |-> DPITEM(items[i], threadId, gpuId)] \o q
\* A push_batch whose loop stops after the first item.
EnqueuedFirstOnly(q, items, threadId, gpuId) ==
  Append(q, DPITEM(items[1], threadId, gpuId))
\* A push_batch whose loop runs from the last item to the first.
EnqueuedReversed(q, items, threadId, gpuId) ==
  q \o [i \in 1..Len(items) |-> DPITEM(items[Len(items) + 1 - i], threadId, gpuId)]
Enqueued(q, items, threadId, gpuId) ==
  q \o [i \in 1..Len(items) |-> DPITEM(items[i], threadId, gpuId)]

\* for (i...) queue.push(item)
PushEnqueue(p) ==
  /\ pc[p] = "enq"
  /\ mutex = p
  /\ queue' = Enqueued(queue, pending[p], p, LaneGpu(p))
  /\ pc' = [pc EXCEPT ![p] = "count"]
  /\ UNCHANGED <<buildvars, servervars, walkvars, envvars, shutdown, totalPushed, totalPopped, mutex, notEmpty,
                 pending, produced, cpc, outvars, argvars, timer, result, ret,
                 mpc, histvars>>

\* totalPushed after totalPushed++ / totalPushed += dps.size()
PushedCountPerCall(total, items) == total + 1
PushedCount(total, items) == total + Len(items)

\* totalPushed += dps.size(); pthread_cond_signal(&notEmpty); pthread_mutex_unlock(&mutex)
PushSignalUnlock(p) ==
  /\ pc[p] = "count"
  /\ mutex = p
  /\ totalPushed' = PushedCount(totalPushed, pending[p])
  /\ Signal
  /\ mutex' = FREE
  /\ pending' = [pending EXCEPT ![p] = <<>>]
  /\ pc' = [pc EXCEPT ![p] = "idle"]
  /\ UNCHANGED <<buildvars, servervars, walkvars, envvars, queue, shutdown, totalPopped, produced,
                 outvars, argvars, timer, ret, mpc, histvars>>

(***************************************************************************)
(* requestShutdown.                                                        *)
(***************************************************************************)
ShutdownCall ==
  /\ mpc = "idle"
  /\ mpc' = "lock"
  /\ UNCHANGED <<buildvars, servervars, walkvars, envvars, qvars, mutex, notEmpty, lanevars, cpc, outvars,
                 argvars, timer, result, ret, histvars>>

\* pthread_mutex_lock(&mutex); shutdown = true;
\* pthread_cond_broadcast(&notEmpty); pthread_mutex_unlock(&mutex)
ShutdownSet ==
  /\ mpc = "lock"
  /\ mutex = FREE
  /\ shutdown' = TRUE
  /\ Signal
  /\ mutex' = FREE
  /\ mpc' = "done"
  /\ UNCHANGED <<buildvars, servervars, walkvars, envvars, queue, totalPushed, totalPopped, lanevars, outvars,
                 argvars, timer, ret, histvars>>

(***************************************************************************)
(* pop_batch.                                                              *)
(***************************************************************************)
\* The arguments, the locals and the history of a call when no call is going on.
Locals ==
  /\ maxCount = 1
  /\ timeout = 0
  /\ timer = 0
  /\ result = WAIT_OBJECT_0
  /\ exitPath = "none"
  /\ waited = 0
  /\ lastWait = 0
  /\ poppedAtCall = 0
  /\ qAtLock = <<>>
  /\ callAfterShutdown = FALSE
  /\ held = 0

\* The call is over: its arguments, locals and history are gone.
LocalsDropped ==
  /\ maxCount' = 1
  /\ timeout' = 0
  /\ timer' = 0
  /\ result' = WAIT_OBJECT_0
  /\ exitPath' = "none"
  /\ waited' = 0
  /\ lastWait' = 0
  /\ poppedAtCall' = 0
  /\ qAtLock' = <<>>
  /\ callAfterShutdown' = FALSE
  /\ held' = 0

\* pop_batch without the three clear() calls at its entry.
PopCallKeepsVectors(mc, to) ==
  /\ cpc = "idle"
  /\ maxCount' = mc
  /\ timeout' = to
  /\ cpc' = "lock"
  /\ exitPath' = "none"
  /\ waited' = 0
  /\ lastWait' = 0
  /\ poppedAtCall' = totalPopped
  /\ qAtLock' = <<>>
  /\ callAfterShutdown' = (mpc = "done")
  /\ held' = 0
  /\ UNCHANGED <<buildvars, servervars, walkvars, qvars, mutex, notEmpty, lanevars, outvars, timer,
                 result, ret, mpc, delivered>>

\* dps.clear(); threadIds.clear(); gpuIds.clear(); then up to the mutex.
PopCall(mc, to) ==
  /\ cpc = "idle"
  /\ dps' = <<>> /\ threadIds' = <<>> /\ gpuIds' = <<>>
  /\ maxCount' = mc
  /\ timeout' = to
  /\ cpc' = "lock"
  /\ exitPath' = "none"
  /\ waited' = 0
  /\ lastWait' = 0
  /\ poppedAtCall' = totalPopped
  /\ qAtLock' = <<>>
  /\ callAfterShutdown' = (mpc = "done")
  /\ held' = 0
  /\ UNCHANGED <<buildvars, servervars, walkvars, qvars, mutex, notEmpty, lanevars, timer, result,
                 ret, mpc, delivered>>

\* pthread_mutex_lock(&mutex); pthread: ts = now + timeout_sec (absolute).
PopLock ==
  /\ cpc = "lock"
  /\ mutex = FREE
  /\ mutex' = NetId
  /\ timer' = IF win64 THEN timer ELSE timeout
  /\ qAtLock' = queue
  /\ cpc' = "first"
  /\ UNCHANGED <<buildvars, servervars, walkvars, envvars, qvars, notEmpty, lanevars, outvars, argvars,
                 result, ret, mpc, delivered, exitPath, waited, lastWait,
                 held, poppedAtCall, callAfterShutdown>>

\* The mutex when pop_batch returns: every return is preceded by
\* pthread_mutex_unlock(&mutex) / ReleaseMutex(mutex).
MutexKeptAtReturn == NetId
MutexAtReturn == FREE

\* The mutex while the consumer is blocked in a timed wait:
\* pthread_cond_timedwait releases it, WIN64 calls ReleaseMutex before the wait.
MutexKeptDuringWait == NetId
MutexDuringWait == FREE

FirstWaitTimerRelative == timeout
\* The deadline of a wait for the first item that starts now: pthread keeps
\* the absolute ts, WIN64 passes timeout_sec * 1000 to every wait.
FirstWaitTimer == IF win64 THEN timeout ELSE timer

\* A test that gives up on shutdown whatever the queue holds.
ShutdownExitIgnoresQueue == shutdown

\* if (shutdown && queue.empty()) { unlock; return false; }
ShutdownExit == shutdown /\ queue = <<>>

\* while (queue.empty() && !shutdown) wait;  if (shutdown && queue.empty()) return false;
PopFirstTest ==
  /\ cpc = "first"
  /\ mutex = NetId
  /\ IF queue = <<>> /\ ~shutdown
     THEN /\ mutex' = MutexDuringWait
          /\ timer' = FirstWaitTimer
          /\ cpc' = "wait_first"
          /\ UNCHANGED <<ret, exitPath>>
     ELSE IF ShutdownExit
     THEN /\ mutex' = MutexAtReturn
          /\ ret' = FALSE
          /\ exitPath' = "shutdown_empty"
          /\ cpc' = "ret"
          /\ timer' = timer
     ELSE /\ cpc' = "drain"
          /\ UNCHANGED <<mutex, timer, ret, exitPath>>
  /\ UNCHANGED <<buildvars, servervars, walkvars, envvars, qvars, notEmpty, lanevars, outvars, argvars,
                 result, mpc, delivered, waited, lastWait, held, poppedAtCall,
                 qAtLock, callAfterShutdown>>

\* WIN64: WaitForSingleObject(notEmpty, ...) returns on the signalled event
\* and resets it.
PopEventWake ==
  /\ win64
  /\ cpc \in WaitStates
  /\ notEmpty
  /\ notEmpty' = FALSE
  /\ result' = WAIT_OBJECT_0
  /\ cpc' = Woken(cpc)
  /\ UNCHANGED <<buildvars, servervars, walkvars, envvars, qvars, mutex, lanevars, outvars, argvars, timer,
                 ret, mpc, histvars>>

\* pthread: pthread_cond_timedwait may return 0 without a signal.
PopSpurious ==
  /\ ~win64
  /\ cpc \in WaitStates
  /\ result' = WAIT_OBJECT_0
  /\ cpc' = Woken(cpc)
  /\ UNCHANGED <<buildvars, servervars, walkvars, envvars, qvars, mutex, notEmpty, lanevars, outvars,
                 argvars, timer, ret, mpc, histvars>>

\* The deadline of the wait has passed: ETIMEDOUT / WAIT_TIMEOUT.
PopTimeout ==
  /\ cpc \in WaitStates
  /\ timer = 0
  /\ win64 => ~notEmpty
  /\ result' = ETIMEDOUT
  /\ cpc' = Woken(cpc)
  /\ UNCHANGED <<buildvars, servervars, walkvars, envvars, qvars, mutex, notEmpty, lanevars, outvars,
                 argvars, timer, ret, mpc, histvars>>

\* Back from the wait for the first item, the mutex re-acquired:
\* if (result == ETIMEDOUT) { unlock; return false; }  else test the loop again.
PopWakeFirst ==
  /\ cpc = "woke_first"
  /\ mutex = FREE
  /\ IF result = ETIMEDOUT
     THEN /\ mutex' = MutexAtReturn
          /\ ret' = FALSE
          /\ exitPath' = "first_timeout"
          /\ cpc' = "ret"
     ELSE /\ mutex' = NetId
          /\ cpc' = "first"
          /\ UNCHANGED <<ret, exitPath>>
  /\ UNCHANGED <<buildvars, servervars, walkvars, envvars, qvars, notEmpty, lanevars, outvars, argvars,
                 timer, result, mpc, delivered, waited, lastWait, held, poppedAtCall,
                 qAtLock, callAfterShutdown>>

\* while (!queue.empty() && dps.size() < maxCount): the collecting loop goes on.
RoomOffByOne == queue # <<>> /\ Len(dps) <= maxCount
Collecting == queue # <<>> /\ Len(dps) < maxCount

\* DPITEM item = queue.front(); queue.pop(); dps.push_back(item.dp);
\* threadIds.push_back(item.threadId); gpuIds.push_back(item.gpuId); totalPopped++;
PopItem ==
  /\ cpc = "drain"
  /\ mutex = NetId
  /\ Collecting
  /\ queue' = Tail(queue)
  /\ dps' = Append(dps, Head(queue).dp)
  /\ threadIds' = Append(threadIds, Head(queue).threadId)
  /\ gpuIds' = Append(gpuIds, Head(queue).gpuId)
  /\ totalPopped' = totalPopped + 1
  /\ UNCHANGED <<buildvars, servervars, walkvars, envvars, shutdown, totalPushed, mutex, notEmpty, lanevars,
                 cpc, argvars, timer, result, ret, mpc, histvars>>

\* while (dps.size() < maxCount && !shutdown): the batching loop goes on.
BatchingIgnoresShutdown == Len(dps) < maxCount
NoBatching == FALSE
BatchingContinues == Len(dps) < maxCount /\ ~shutdown

\* ts_batch = now + batching_delay_ms, computed anew in every round.
BatchWaitTimerFromFirstItem ==
  IF held < BatchDelayTicks THEN BatchDelayTicks - held ELSE 0
BatchWaitTimer == BatchDelayTicks

\* The collecting loop is over.  Either wait one batching delay for more
\* (ts_batch = now + batching_delay_ms), or unlock and return !dps.empty().
PopBatchTest ==
  /\ cpc = "drain"
  /\ mutex = NetId
  /\ ~Collecting
  /\ IF BatchingContinues
     THEN /\ mutex' = MutexDuringWait
          /\ timer' = BatchWaitTimer
          /\ lastWait' = 0
          /\ cpc' = "wait_batch"
          /\ UNCHANGED <<ret, exitPath>>
     ELSE /\ mutex' = MutexAtReturn
          /\ ret' = (dps # <<>>)
          /\ exitPath' = IF Len(dps) >= maxCount THEN "full" ELSE "shutdown"
          /\ cpc' = "ret"
          /\ UNCHANGED <<timer, lastWait>>
  /\ UNCHANGED <<buildvars, servervars, walkvars, envvars, qvars, notEmpty, lanevars, outvars,
                 argvars, result, mpc, delivered, waited, held, poppedAtCall,
                 qAtLock, callAfterShutdown>>

\* Back from a batching wait, the mutex re-acquired:
\* if (result == ETIMEDOUT) break;  else collect what arrived.
PopWakeBatch ==
  /\ cpc = "woke_batch"
  /\ mutex = FREE
  /\ IF result = ETIMEDOUT
     THEN /\ mutex' = MutexAtReturn
          /\ ret' = (dps # <<>>)
          /\ exitPath' = "batch_timeout"
          /\ cpc' = "ret"
     ELSE /\ mutex' = NetId
          /\ cpc' = "drain"
          /\ UNCHANGED <<ret, exitPath>>
  /\ UNCHANGED <<buildvars, servervars, walkvars, envvars, qvars, notEmpty, lanevars, outvars, argvars,
                 timer, result, mpc, delivered, waited, lastWait, held, poppedAtCall,
                 qAtLock, callAfterShutdown>>

\* The batch handed to the caller, as DPITEMs.
Batch == [i \in 1..Len(dps) |-> DPITEM(dps[i], threadIds[i], gpuIds[i])]

\* pop_batch returns to its caller.
PopReturn ==
  /\ cpc = "ret"
  /\ delivered' = delivered \o Batch
  /\ cpc' = "idle"
  /\ LocalsDropped
  /\ UNCHANGED <<buildvars, servervars, walkvars, qvars, mutex, notEmpty, lanevars, outvars, ret,
                 mpc>>

(***************************************************************************)
(* Time.  One clock period passes.  A deadline that is reached, and a wait *)
(* on an event that is already signalled, do not let time pass: the wait   *)
(* returns first.  Tick leaves to its user what the callers' clocks do.     *)
(***************************************************************************)
\* The consumer has a deadline running: inside a timed wait, and in the
\* pthread build from the moment ts is computed until the first item.
DeadlineRuns ==
  \/ cpc \in WaitStates
  \/ ~win64 /\ cpc \in {"first", "woke_first"}

Tick ==
  /\ DeadlineRuns
  /\ timer > 0
  /\ ~(win64 /\ cpc \in WaitStates /\ notEmpty)
  /\ timer' = timer - 1
  /\ waited' = IF cpc = "wait_first" THEN waited + 1 ELSE waited
  /\ lastWait' = IF cpc = "wait_batch" THEN lastWait + 1 ELSE lastWait
  /\ UNCHANGED <<buildvars, servervars, walkvars, qvars, mutex, notEmpty, lanevars, cpc, outvars,
                 argvars, result, ret, mpc, delivered, exitPath, poppedAtCall,
                 qAtLock, callAfterShutdown>>

(***************************************************************************)
(* The server: the hash table of DPs (HashTable::Add), the collision check *)
(* (Kangaroo::CollisionCheck, CheckKey) and the connection handlers.       *)
(* The curve is replaced by the cyclic group of GroupOrder elements: the   *)
(* point k * G is the number k % GroupOrder.                               *)
(***************************************************************************)
ADD_OK == "ADD_OK"
ADD_DUPLICATE == "ADD_DUPLICATE"
ADD_COLLISION == "ADD_COLLISION"

\* What the server answers for an Add, in the words of the description.
SAME_HERD_DUPLICATE == "SAME_HERD_DUPLICATE"
CROSS_HERD_COLLISION == "CROSS_HERD_COLLISION"

Handlers == 1..NHandlers
Buckets == 0..(HashSize - 1)
XValues == 0..(NX - 1)
Dists == 1..MaxDist
\* The kangaroos of the first lane, one half tame, one half wild.
KIdxs == 0..(KangPerLane - 1)
Keys == 1..(GroupOrder - 1)

\* The kangaroos whose DPs reach the server.
ServerKIdxs == KIdxs

\* The DPs a client can send: x, distance, kangaroo index.
ServerDPs == [x : XValues, d : Dists, kIdx : ServerKIdxs]

\* k * G
Point(k) == k % GroupOrder

\* P - k * G and P + k * G
PointSub(pt, k) == (pt + GroupOrder - (k % GroupOrder)) % GroupOrder
PointAdd(pt, k) == (pt + k) % GroupOrder

\* The interval midpoint.
WildOffset == GroupOrder \div 2

\* hash: x->i64[0] % HASH_SIZE
Hash(x) == x % HashSize

\* One lock per shard; a bucket belongs to one shard.
ShardOf(x) == Hash(x)

\* compare(): -1, 0, 1
Compare(a, b) == IF a < b THEN -1 ELSE IF a = b THEN 0 ELSE 1

\* The entry made of a DP: its point, its distance, its type.
ENTRY(dp) == [x |-> dp.x, d |-> dp.d, kType |-> KType(dp.kIdx), kIdx |-> dp.kIdx]

\* The binary search of a bucket between st and ed: the position of the
\* entry with this x, or the position where it is to be inserted.
RECURSIVE Search(_, _, _, _)
Search(b, x, st, ed) ==
  IF st > ed THEN [found |-> FALSE, at |-> st]
  ELSE LET mi == (st + ed) \div 2
           comp == Compare(x, b[mi].x)
       IN IF comp < 0 THEN Search(b, x, st, mi - 1)
          ELSE IF comp = 0 THEN [found |-> TRUE, at |-> mi]
          ELSE Search(b, x, mi + 1, ed)

\* A search phase that does not tell a duplicate from a collision.
LookupNoDuplicate(tab, dp) ==
  LET b == tab[Hash(dp.x)]
  IN IF Len(b) = 0 THEN [status |-> ADD_OK, at |-> 1]
     ELSE LET s == Search(b, dp.x, 1, Len(b))
          IN IF ~s.found THEN [status |-> ADD_OK, at |-> s.at]
             ELSE [status |-> ADD_COLLISION, at |-> s.at]

\* The search phase of Add.  An empty bucket takes the entry without a
\* check; a match with the same distance is a duplicate, a match with a
\* different distance a collision.
Lookup(tab, dp) ==
  LET b == tab[Hash(dp.x)]
  IN IF Len(b) = 0 THEN [status |-> ADD_OK, at |-> 1]
     ELSE LET s == Search(b, dp.x, 1, Len(b))
          IN IF ~s.found THEN [status |-> ADD_OK, at |-> s.at]
             ELSE IF b[s.at].d = dp.d THEN [status |-> ADD_DUPLICATE, at |-> s.at]
             ELSE [status |-> ADD_COLLISION, at |-> s.at]

\* An insertion that appends instead of keeping the bucket sorted.
InsertAtEnd(b, i, e) == Append(b, e)

\* ADD_ENTRY: the entry goes to position i, the entries from i on move up.
InsertAt(b, i, e) == SubSeq(b, 1, i - 1) \o <<e>> \o SubSeq(b, i, Len(b))

\* A collision check that takes every collision for one inside a herd.
SameHerdAlways(type1, type2) == TRUE

\* CollisionCheck: a collision inside one herd is rejected, a collision of
\* the two herds goes to the key check.
SameHerd(type1, type2) == type1 = type2

\* A same-herd collision that leaves the stored entry as it is.
KeptStored(stored, new) == stored

\* The entry a same-herd collision leaves in the table: the one with the
\* shorter distance.
KeptEntry(stored, new) == IF new.d < stored.d THEN new ELSE stored

\* The collision event of a stored entry and a new one of the other herd:
\* the tame one, the wild one, and the kangaroo that sent the new DP.
Event(stored, new) ==
  [x |-> new.x,
   tame |-> IF stored.kType = TAME THEN stored ELSE new,
   wild |-> IF stored.kType = TAME THEN new ELSE stored,
   kIdx |-> new.kIdx]

\* What the server answers, given what the search found.
AddResult(tab, dp, hit) ==
  IF hit.status = ADD_OK THEN ADD_OK
  ELSE IF hit.status = ADD_DUPLICATE THEN SAME_HERD_DUPLICATE
  ELSE IF SameHerd(tab[Hash(dp.x)][hit.at].kType, KType(dp.kIdx))
       THEN SAME_HERD_DUPLICATE
       ELSE CROSS_HERD_COLLISION

\* The second phase of Add on the store S = [table, count, emitted], given
\* what the search found.
Applied(S, dp, hit) ==
  LET h == Hash(dp.x)
      b == S.table[h]
      e == ENTRY(dp)
  IN IF hit.status = ADD_OK
       THEN [S EXCEPT !.table[h] = InsertAt(b, hit.at, e)]
     ELSE IF hit.status = ADD_DUPLICATE THEN S
     ELSE IF SameHerd(b[hit.at].kType, e.kType)
       THEN [S EXCEPT !.count = @ + 1,
                      !.table[h][hit.at] = KeptEntry(b[hit.at], e)]
       ELSE [S EXCEPT !.emitted = Append(@, Event(b[hit.at], e))]

\* Add as a whole: search and second phase on the same table.
AddTo(S, dp) == Applied(S, dp, Lookup(S.table, dp))

\* The entries of a table that hold the point x.
EntriesOf(tab, x) ==
  {tab[Hash(x)][i] : i \in {j \in 1..Len(tab[Hash(x)]) : tab[Hash(x)][j].x = x}}

\* The store the server holds.
Store == [table |-> table, count |-> collisionInSameHerd, emitted |-> emitted]

\* A candidate key with the offset taken the other way.
CandidateKeyMinusOffset(T, W) ==
  (T.d + GroupOrder - (W.d % GroupOrder) + GroupOrder - WildOffset) % GroupOrder

\* k = (T.dist - W.dist + wildOffset) mod n
CandidateKey(T, W) == (T.d + GroupOrder - (W.d % GroupOrder) + WildOffset) % GroupOrder

\* A key check that accepts every candidate.
CheckKeyAlwaysTrue(k) == TRUE

\* CheckKey: k * G = P
CheckKey(k) == Point(k) = Point(key)

NoKey == GroupOrder

\* The server before it has received anything.
ServerStart ==
  /\ table = [h \in Buckets |-> <<>>]
  /\ collisionInSameHerd = 0
  /\ events = <<>>
  /\ emitted = <<>>
  /\ addLog = <<>>
  /\ endOfSearch = FALSE
  /\ foundKey = NoKey
  /\ resets = {}
  /\ checked = <<>>
  /\ shardLock = [h \in Buckets |-> FREE]
  /\ hpc = [t \in Handlers |-> "recv"]
  /\ hdp = [t \in Handlers |-> [x |-> 0, d |-> 1, kIdx |-> 0]]
  /\ hhit = [t \in Handlers |-> [status |-> "ADD_OK", at |-> 1]]

\* No server and no kangaroos: the client's pipeline alone.
NoServer ==
  /\ key = 0
  /\ ServerStart
  /\ kang = [k \in KIdxs |-> [pos |-> 0, d |-> 0]]
  /\ jumps = 0

(***************************************************************************)
(* The queue used by arbitrary callers: any lane pushes at any time, any   *)
(* pop_batch(maxCount, timeout) is called when the last one has returned,  *)
(* requestShutdown is called at any time.                                  *)
(***************************************************************************)
InitQueue ==
  /\ win64 \in BOOLEAN
  /\ queue = <<>>
  /\ shutdown = FALSE
  /\ totalPushed = 0
  /\ totalPopped = 0
  /\ mutex = FREE
  /\ notEmpty = FALSE
  /\ pc = [p \in Lanes |-> "idle"]
  /\ pending = [p \in Lanes |-> <<>>]
  /\ produced = [p \in Lanes |-> 0]
  /\ cpc = "idle"
  /\ dps = <<>> /\ threadIds = <<>> /\ gpuIds = <<>>
  /\ Locals
  /\ ret = FALSE
  /\ mpc = "idle"
  /\ delivered = <<>>
  /\ sends = <<>>
  /\ atStop = [pushed |-> {}, depth |-> 0, npc |-> "off"]

Init ==
  /\ InitQueue
  /\ NoServer
  /\ tick_ms = batching_delay_ms
  /\ budget = MaxItems
  /\ npc = "off"
  /\ networkThreadRunning = FALSE
  /\ nextPush = 0

LanePush(p) == PushCall(p) /\ UNCHANGED envvars

CallerPop(mc, to) == PopCall(mc, to) /\ UNCHANGED envvars

CallerReturn == PopReturn /\ UNCHANGED envvars

TimePasses == Tick /\ UNCHANGED <<held, envvars>>

Producer ==
  \/ \E p \in Lanes : LanePush(p)
  \/ \E p \in Lanes, n \in 0..MaxItems : PushBatchCall(p, n)
  \/ \E p \in Lanes : PushLock(p)
  \/ \E p \in Lanes : PushEnqueue(p)
  \/ \E p \in Lanes : PushSignalUnlock(p)

PopBatch ==
  \/ PopLock
  \/ PopFirstTest
  \/ PopEventWake
  \/ PopSpurious
  \/ PopTimeout
  \/ PopWakeFirst
  \/ PopItem
  \/ PopBatchTest
  \/ PopWakeBatch

RequestShutdown ==
  \/ ShutdownCall
  \/ ShutdownSet

Next ==
  \/ Producer
  \/ \E mc \in 1..MaxCount, to \in 0..MaxTimeout : CallerPop(mc, to)
  \/ PopBatch
  \/ CallerReturn
  \/ RequestShutdown
  \/ TimePasses

Spec == Init /\ [][Next]_vars

(***************************************************************************)
(* Scheduling.  Every thread that can run does run (weak fairness of the   *)
(* steps taken with the mutex held), and the mutex is handed off fairly: a *)
(* lane that asks for it again and again while it keeps becoming free gets *)
(* it (strong fairness of the lane's lock).                                *)
(***************************************************************************)
Fairness ==
  /\ \A p \in Lanes : SF_vars(PushLock(p))
  /\ \A p \in Lanes : WF_vars(PushEnqueue(p))
  /\ \A p \in Lanes : WF_vars(PushSignalUnlock(p))
  /\ WF_vars(PopFirstTest)
  /\ WF_vars(PopItem)
  /\ WF_vars(PopBatchTest)

FairSpec == Spec /\ Fairness

(***************************************************************************)
(* One lane that delivers its DPs with push_batch only, BatchLen at a      *)
(* time, next to lanes that use push and push_batch as they like.  The     *)
(* k-th call of that lane carries its DPs (k-1)*BatchLen+1 .. k*BatchLen.  *)
(***************************************************************************)
BatchLen == 2
BatchLane == CHOOSE p \in Lanes : \A q \in Lanes : p <= q

InitBatch ==
  /\ InitQueue
  /\ NoServer
  /\ tick_ms = batching_delay_ms
  /\ budget = BatchLen + MaxItems
  /\ npc = "off"
  /\ networkThreadRunning = FALSE
  /\ nextPush = 0

NextBatch ==
  \/ PushBatchCall(BatchLane, BatchLen)
  \/ \E p \in Lanes \ {BatchLane} : LanePush(p)
  \/ \E p \in Lanes \ {BatchLane}, n \in 1..MaxItems : PushBatchCall(p, n)
  \/ \E p \in Lanes : PushLock(p)
  \/ \E p \in Lanes : PushEnqueue(p)
  \/ \E p \in Lanes : PushSignalUnlock(p)
  \/ \E mc \in 1..MaxCount, to \in 0..MaxTimeout : CallerPop(mc, to)
  \/ PopBatch
  \/ CallerReturn
  \/ RequestShutdown
  \/ TimePasses

SpecBatch == InitBatch /\ [][NextBatch]_vars

(***************************************************************************)
(* A consumer that keeps calling pop_batch.  It calls again when a call    *)
(* has returned, gets the mutex when it asks for it, and its timed waits   *)
(* end: time passes, and a wait is not woken without a signal for ever     *)
(* before its deadline (strong fairness of the clock and of the timeout).  *)
(***************************************************************************)
ConsumerFairness ==
  /\ WF_vars(\E mc \in 1..MaxCount, to \in 0..MaxTimeout : CallerPop(mc, to))
  /\ WF_vars(PopLock)
  /\ WF_vars(PopEventWake)
  /\ SF_vars(TimePasses)
  /\ SF_vars(PopTimeout)
  /\ WF_vars(PopWakeFirst)
  /\ WF_vars(PopWakeBatch)
  /\ WF_vars(CallerReturn)

FairSpecConsumer == FairSpec /\ ConsumerFairness

(***************************************************************************)
(* The client around the queue (src/ASYNC_NETWORK_IMPLEMENTATION.md).      *)
(*                                                                         *)
(*   NetworkThread:  while (running) {                                     *)
(*                     batch = dpQueue.pop_batch(1000); SendToServer(batch)*)
(*                   }   and the remaining DPs are flushed before exit     *)
(*   shutdown:       networkThreadRunning = false;                         *)
(*                   dpQueue.requestShutdown(); pthread_join(...)          *)
(*                                                                         *)
(* NetworkThread is the only caller of pop_batch.  SendToServer succeeds   *)
(* or fails; after a failure the thread reconnects through WaitForServer   *)
(* and goes on with its loop, and the next pop_batch call clears the       *)
(* vectors that held the batch.                                            *)
(***************************************************************************)
\* bool empty(): queue.empty(), read with the mutex held.
QueueEmptyInverted == queue # <<>>
QueueEmpty == queue = <<>>

\* The DPs whose push / push_batch call has returned.
InFlight(p) == IF pc[p] = "idle" THEN {} ELSE {pending[p][i] : i \in 1..Len(pending[p])}
Pushed ==
  UNION {{NewDP(p, k) : k \in 1..produced[p]} \ InFlight(p) : p \in Lanes}

\* The thread calls pop_batch with its batch size, which the model scales
\* down to MaxCount, and with the default timeout.
NetBatch == MaxCount
NetTimeout == default_timeout_ms \div tick_ms

\* while (running) { ... pop_batch(...)
NetPopCall ==
  /\ npc = "loop"
  /\ networkThreadRunning
  /\ PopCall(NetBatch, NetTimeout)
  /\ npc' = "popping"
  /\ UNCHANGED <<networkThreadRunning, sends, atStop, nextPush>>

\* The loop is left: what remains in the queue is flushed, batch by batch.
NetFlushPop ==
  /\ npc = "loop"
  /\ ~networkThreadRunning
  /\ mutex = FREE
  /\ ~QueueEmpty
  /\ PopCall(NetBatch, NetTimeout)
  /\ npc' = "popping"
  /\ UNCHANGED <<networkThreadRunning, sends, atStop, nextPush>>

\* Nothing remains: NetworkThread returns.
NetExit ==
  /\ npc = "loop"
  /\ ~networkThreadRunning
  /\ mutex = FREE
  /\ QueueEmpty
  /\ npc' = "exited"
  /\ UNCHANGED <<buildvars, servervars, walkvars, qvars, mutex, notEmpty, lanevars, cpc, outvars,
                 argvars, timer, result, ret, mpc, histvars,
                 networkThreadRunning, sends, atStop, nextPush>>

\* pop_batch is back: a batch goes to SendToServer, no batch goes round again.
NetPopReturn ==
  /\ npc = "popping"
  /\ PopReturn
  /\ npc' = IF ret THEN "send" ELSE "loop"
  /\ UNCHANGED <<networkThreadRunning, sends, atStop, nextPush>>

\* SendToServer(batch): returns false on error.
NetSend(ok) ==
  /\ npc = "send"
  /\ sends' = Append(sends, [batch |-> Batch, ok |-> ok])
  /\ npc' = IF ok THEN "loop" ELSE "reconnect"
  /\ UNCHANGED <<buildvars, servervars, walkvars, qvars, mutex, notEmpty, lanevars, cpc, outvars,
                 argvars, timer, result, ret, mpc, histvars,
                 networkThreadRunning, atStop, nextPush>>

\* A reconnect after which the batch of the failed send is sent again.
ResendAfterReconnect == "send"

\* Where NetworkThread goes on after WaitForServer(): with its loop.
AfterReconnect == "loop"

\* WaitForServer(): the connection is back, the loop goes on.
NetReconnect ==
  /\ npc = "reconnect"
  /\ npc' = AfterReconnect
  /\ UNCHANGED <<buildvars, servervars, walkvars, qvars, mutex, notEmpty, lanevars, cpc, outvars,
                 argvars, timer, result, ret, mpc, histvars,
                 networkThreadRunning, sends, atStop, nextPush>>

\* networkThreadRunning = false; then into dpQueue.requestShutdown().
StopClient ==
  /\ mpc = "idle"
  /\ networkThreadRunning
  /\ networkThreadRunning' = FALSE
  /\ atStop' = [pushed |-> Pushed, depth |-> Len(queue), npc |-> npc]
  /\ mpc' = "lock"
  /\ UNCHANGED <<buildvars, servervars, walkvars, qvars, mutex, notEmpty, lanevars, cpc, outvars,
                 argvars, timer, result, ret, histvars, npc, sends, nextPush>>

\* pthread_join(networkThreadHandle, NULL) returns.
Join ==
  /\ mpc = "done"
  /\ npc = "exited"
  /\ mpc' = "joined"
  /\ UNCHANGED <<buildvars, servervars, walkvars, qvars, mutex, notEmpty, lanevars, cpc, outvars,
                 argvars, timer, result, ret, histvars, envvars>>

\* The clock of this specification has the period of the default timeout;
\* the batching delay is below its resolution.
InitNet ==
  /\ InitQueue
  /\ NoServer
  /\ tick_ms = default_timeout_ms
  /\ budget = MaxItems
  /\ npc = "loop"
  /\ networkThreadRunning = TRUE
  /\ nextPush = 0

NetworkThread ==
  \/ NetPopCall
  \/ NetFlushPop
  \/ NetExit
  \/ PopBatch
  \/ NetPopReturn
  \/ \E ok \in BOOLEAN : NetSend(ok)
  \/ NetReconnect

NextNet ==
  \/ Producer
  \/ NetworkThread
  \/ StopClient
  \/ ShutdownSet
  \/ Join
  \/ TimePasses

SpecNet == InitNet /\ [][NextNet]_vars

(***************************************************************************)
(* Steady load.  One lane pushes one DP every PushPeriodMs; the consumer   *)
(* calls pop_batch(ScenarioMaxCount) with the default timeout in a loop.   *)
(* The clock period is the push period.  Threads that can run do so at     *)
(* once: time passes only while the consumer is blocked in a timed wait    *)
(* and the lane is between two pushes.                                     *)
(***************************************************************************)
ScenarioLane == CHOOSE p \in Lanes : \A q \in Lanes : p <= q
PushPeriodTicks == PushPeriodMs \div tick_ms
HeldCap == ScenarioMaxCount * PushPeriodTicks

\* The lane still has DPs to push.
Producing == SumTo(produced, NLanes) < budget

PeriodicPush ==
  /\ nextPush = 0
  /\ PushCall(ScenarioLane)
  /\ nextPush' = PushPeriodTicks
  /\ UNCHANGED netvars

LoopPop == CallerPop(ScenarioMaxCount, NetTimeout)

QuietTick ==
  /\ pc[ScenarioLane] = "idle"
  /\ nextPush > 0 \/ ~Producing
  /\ cpc \in WaitStates
  /\ Tick
  /\ nextPush' = IF nextPush > 0 THEN nextPush - 1 ELSE 0
  /\ held' = IF dps # <<>> /\ held < HeldCap THEN held + 1 ELSE held
  /\ UNCHANGED netvars

InitLatency ==
  /\ InitQueue
  /\ NoServer
  /\ tick_ms = PushPeriodMs
  /\ budget = ScenarioItems
  /\ npc = "off"
  /\ networkThreadRunning = FALSE
  /\ nextPush = PushPeriodTicks

NextLatency ==
  \/ PeriodicPush
  \/ PushLock(ScenarioLane)
  \/ PushEnqueue(ScenarioLane)
  \/ PushSignalUnlock(ScenarioLane)
  \/ LoopPop
  \/ PopBatch
  \/ CallerReturn
  \/ QuietTick

SpecLatency == InitLatency /\ [][NextLatency]_vars

(***************************************************************************)
(* The server at work.  A connection handler receives a DP, takes the lock *)
(* of the DP's shard, searches the bucket, applies the result and releases *)
(* the lock.  Collision events go to the key check.  Clients may send any  *)
(* DP: a kangaroo that was reset sends distances that fit no key.          *)
(***************************************************************************)
\* Adds begun so far.
AddsBegun == Len(addLog) + Cardinality({t \in Handlers : hpc[t] # "recv" /\ hpc[t] # "stopped"})

\* The handler reads a DP from its connection.
HandlerRecv(t, dp) ==
  /\ hpc[t] = "recv"
  /\ ~endOfSearch
  /\ AddsBegun < MaxAdds
  /\ hdp' = [hdp EXCEPT ![t] = dp]
  /\ hpc' = [hpc EXCEPT ![t] = "lock"]
  /\ UNCHANGED <<pipevars, walkvars, key, storevars, checkvars, shardLock, hhit>>

\* A lock that is given up between the search and the second phase.
LockDroppedAfterLookup(t) == FREE

\* The lock is held across both phases of Add.
LockAfterLookup(t) == t

\* What a handler holds between two Adds.
NoDP == [x |-> 0, d |-> 1, kIdx |-> 0]
NoHit == [status |-> ADD_OK, at |-> 1]

\* Add: the lock of the shard is taken and the bucket searched.
HandlerLookup(t) ==
  /\ hpc[t] = "lock"
  /\ shardLock[ShardOf(hdp[t].x)] = FREE
  /\ hhit' = [hhit EXCEPT ![t] = Lookup(table, hdp[t])]
  /\ shardLock' = [shardLock EXCEPT ![ShardOf(hdp[t].x)] = LockAfterLookup(t)]
  /\ hpc' = [hpc EXCEPT ![t] = "apply"]
  /\ UNCHANGED <<pipevars, walkvars, key, storevars, checkvars, hdp>>

\* Add: the second phase, then the lock is released and the handler
\* answers.  A cross-herd collision is queued for the key check.
HandlerApply(t) ==
  /\ hpc[t] = "apply"
  /\ LET S == Applied(Store, hdp[t], hhit[t])
     IN /\ table' = S.table
        /\ collisionInSameHerd' = S.count
        /\ emitted' = S.emitted
        /\ events' = events \o SubSeq(S.emitted, Len(emitted) + 1, Len(S.emitted))
        /\ addLog' = Append(addLog, [dp |-> hdp[t],
                                     status |-> hhit[t].status,
                                     result |-> AddResult(table, hdp[t], hhit[t]),
                                     events |-> Len(S.emitted) - Len(emitted),
                                     counted |-> S.count - collisionInSameHerd,
                                     before |-> EntriesOf(table, hdp[t].x),
                                     after |-> EntriesOf(S.table, hdp[t].x)])
  /\ shardLock' = [shardLock EXCEPT ![ShardOf(hdp[t].x)] = FREE]
  /\ hpc' = [hpc EXCEPT ![t] = "recv"]
  /\ hdp' = [hdp EXCEPT ![t] = NoDP]
  /\ hhit' = [hhit EXCEPT ![t] = NoHit]
  /\ UNCHANGED <<pipevars, walkvars, key, checkvars>>

\* The handler sees that the search has ended and stops.
HandlerStop(t) ==
  /\ hpc[t] = "recv"
  /\ endOfSearch
  /\ hpc' = [hpc EXCEPT ![t] = "stopped"]
  /\ UNCHANGED <<pipevars, walkvars, key, storevars, checkvars, shardLock, hdp, hhit>>

\* A wrong collision that ends the search.
WrongCollisionIsFatal(ok) == TRUE

\* The search ends on a verified key only.
SearchEnds(ok) == ok

\* The key check of the oldest collision event: KEY FOUND ends the search;
\* a wrong collision resets the kangaroo that sent the DP and the search
\* goes on.  The event is consumed either way.
KeyCheck ==
  /\ events # <<>>
  /\ ~endOfSearch
  /\ LET ev == Head(events)
         k == CandidateKey(ev.tame, ev.wild)
         ok == CheckKey(k)
     IN /\ endOfSearch' = SearchEnds(ok)
        /\ foundKey' = IF ok THEN k ELSE foundKey
        /\ resets' = IF ok THEN resets ELSE resets \cup {ev.kIdx}
        /\ checked' = Append(checked, [event |-> ev, k |-> k, ok |-> ok])
  /\ events' = Tail(events)
  /\ UNCHANGED <<pipevars, walkvars, key, table, collisionInSameHerd, emitted,
                 addLog, handlervars>>

InitServer ==
  /\ InitQueue
  /\ win64 = FALSE
  /\ tick_ms = default_timeout_ms
  /\ budget = 0
  /\ npc = "off"
  /\ networkThreadRunning = FALSE
  /\ nextPush = 0
  /\ key \in Keys
  /\ ServerStart
  /\ kang = [k \in KIdxs |-> [pos |-> 0, d |-> 0]]
  /\ jumps = 0

NextServer ==
  \/ \E t \in Handlers, dp \in ServerDPs : HandlerRecv(t, dp)
  \/ \E t \in Handlers : HandlerLookup(t)
  \/ \E t \in Handlers : HandlerApply(t)
  \/ \E t \in Handlers : HandlerStop(t)
  \/ KeyCheck

SpecServer == InitServer /\ [][NextServer]_vars

\* Every handler that can take a step of an Add, or stop, does so in the end;
\* so does the key check.
FairnessServer ==
  /\ \A t \in Handlers :
       /\ WF_vars(HandlerLookup(t))
       /\ WF_vars(HandlerApply(t))
       /\ WF_vars(HandlerStop(t))
  /\ WF_vars(KeyCheck)

FairSpecServer == SpecServer /\ FairnessServer

(***************************************************************************)
(* The kangaroos of a client.  A tame kangaroo starts at start * G with    *)
(* distance start, a wild one at P - wildOffset * G with distance 0.  A    *)
(* jump is chosen by the position, adds the jump's point to the position   *)
(* and the jump's distance to the distance.                                *)
(***************************************************************************)
Tames == {k \in KIdxs : KType(k) = TAME}
Wilds == {k \in KIdxs : KType(k) = WILD}

\* P = key * G
P == Point(key)

\* J[j]: the distance of jump j; its point is JumpDist(j) * G.
JumpDist(j) == j + 1

\* CreateHerd: the kangaroos at creation.
Created(k, start) ==
  IF KType(k) = TAME
    THEN [pos |-> Point(start), d |-> start]
    ELSE [pos |-> PointSub(P, WildOffset), d |-> 0]

\* One jump of kangaroo k.
WalkJump(k) ==
  /\ jumps < MaxJumps
  /\ LET j == kang[k].pos % NJumps
     IN kang' = [kang EXCEPT ![k] = [pos |-> PointAdd(@.pos, JumpDist(j)),
                                     d |-> @.d + JumpDist(j)]]
  /\ jumps' = jumps + 1
  /\ UNCHANGED <<pipevars, servervars>>

InitWalk ==
  /\ InitQueue
  /\ win64 = FALSE
  /\ tick_ms = default_timeout_ms
  /\ budget = 0
  /\ npc = "off"
  /\ networkThreadRunning = FALSE
  /\ nextPush = 0
  /\ key \in Keys
  /\ ServerStart
  /\ \E start \in [KIdxs -> 0..MaxStart] :
       kang = [k \in KIdxs |-> Created(k, start[k])]
  /\ jumps = 0

NextWalk == \E k \in KIdxs : WalkJump(k)

SpecWalk == InitWalk /\ [][NextWalk]_vars

(***************************************************************************)
(* The wire: a DP travels as x(32), dist(24), kIdx(8), pad(4); the herd is  *)
(* not transmitted, the server derives it from kIdx.                       *)
(***************************************************************************)
KIdxBytes == 8

\* v >> (8 * n)
RECURSIVE ShiftBytes(_, _)
ShiftBytes(v, n) == IF n = 0 THEN v ELSE ShiftBytes(v \div 256, n - 1)

\* The kIdx field of a DP record on the wire, little-endian.
ToWire(kIdx) == [i \in 1..KIdxBytes |-> ShiftBytes(kIdx, i - 1) % 256]

RECURSIVE FromWireAt(_, _)
FromWireAt(bytes, i) ==
  IF i > Len(bytes) THEN 0 ELSE bytes[i] + 256 * FromWireAt(bytes, i + 1)

FromWire(bytes) == FromWireAt(bytes, 1)

\* The herd the server gives a DP it received.
ServerKType(dp) == KType(FromWire(ToWire(dp.kIdx)))

(***************************************************************************)
(* The client and the store together.  SendToServer puts the batch on the  *)
(* wire; the handler of the connection adds every DP it has received to    *)
(* the store, in the order of the batch.  A send that fails has put some   *)
(* prefix of the batch on the wire, possibly all of it, before the         *)
(* connection broke.                                                       *)
(***************************************************************************)
\* The point of a DP: every DP a lane finds is a different point.
XOf(dp) == (dp.seq - 1) * NLanes + (dp.lane - 1)

\* The DP as the server decodes it from its 68 bytes.
StoreDP(dp) == [x |-> XOf(dp), d |-> dp.seq, kIdx |-> FromWire(ToWire(dp.kIdx))]

\* The handler's loop over the DPs it received: Add for each, in order.
RECURSIVE AddAll(_, _)
AddAll(S, recv) ==
  IF recv = <<>> THEN S ELSE AddAll(AddTo(S, Head(recv)), Tail(recv))

\* SendToServer(batch) with the server behind it: n DPs of the batch reach
\* the server, all of them when the send succeeds.
NetSendToStore(ok, n) ==
  /\ npc = "send"
  /\ n \in 0..Len(dps)
  /\ ok => n = Len(dps)
  /\ LET S == AddAll(Store, [i \in 1..n |-> StoreDP(dps[i])])
     IN /\ table' = S.table
        /\ collisionInSameHerd' = S.count
        /\ emitted' = S.emitted
        /\ events' = events \o SubSeq(S.emitted, Len(emitted) + 1, Len(S.emitted))
  /\ sends' = Append(sends, [batch |-> Batch, ok |-> ok, sent |-> n])
  /\ npc' = IF ok THEN "loop" ELSE "reconnect"
  /\ UNCHANGED <<buildvars, walkvars, key, addLog, checkvars, handlervars, qvars,
                 mutex, notEmpty, lanevars, cpc, outvars, argvars, timer, result,
                 ret, mpc, histvars, networkThreadRunning, atStop, nextPush>>

NextResend ==
  \/ Producer
  \/ NetPopCall
  \/ NetFlushPop
  \/ NetExit
  \/ PopBatch
  \/ NetPopReturn
  \/ \E ok \in BOOLEAN, n \in 0..MaxCount : NetSendToStore(ok, n)
  \/ NetReconnect
  \/ StopClient
  \/ ShutdownSet
  \/ Join
  \/ TimePasses

SpecResend == InitNet /\ [][NextResend]_vars

(***************************************************************************)
(* The DP_BATCH frame:  MSG_TYPE(1) | LENGTH(4) | COUNT(4) | COUNT records  *)
(* of x(32), dist(24), kIdx(8), pad(4).  LENGTH and COUNT are unsigned      *)
(* 32-bit fields; their arithmetic is done on 16-bit halves so that a      *)
(* carry out of 32 bits is seen.                                           *)
(***************************************************************************)
XBytes == 32
DistBytes == 24
PadBytes == 4

\* An item size that leaves the padding out.
ItemSizeWithoutPad == XBytes + DistBytes + KIdxBytes

\* #define ITEM_SIZE 68
ITEM_SIZE == 68
\* #define ITEM_SIZE32 (ITEM_SIZE/4)
ITEM_SIZE32 == ITEM_SIZE \div 4

\* pop_batch(1000): the DPs NetworkThread puts into one send.
BATCH_SIZE == 1000

DP_BATCH == 1
Half == 256 * 256

\* A field of n bytes holding v, most significant byte first.
Field(v, n) == [i \in 1..n |-> ShiftBytes(v, n - i) % 256]

\* One DP record.
EncodeItem(dp) ==
  Field(XOf(dp), XBytes) \o Field(dp.seq, DistBytes) \o ToWire(dp.kIdx)
    \o Field(0, PadBytes)

\* LENGTH = 4 + ITEM_SIZE * COUNT in 32 bits: the two halves of the field
\* and whether the sum went beyond the field.
LengthOf(count) ==
  LET lo == ITEM_SIZE * (count % Half) + 4
      hi == ITEM_SIZE * (count \div Half) + lo \div Half
  IN [hi |-> hi % Half, lo |-> lo % Half, overflow |-> hi >= Half]

\* An unsigned 32-bit field from its halves.
U32Bytes(hi, lo) == Field(hi, 2) \o Field(lo, 2)

\* The records of batch[from..to], one after the other.
RECURSIVE EncodeItems(_, _, _)
EncodeItems(batch, from, to) ==
  IF from > to THEN <<>>
  ELSE IF from = to THEN EncodeItem(batch[from])
  ELSE LET mid == (from + to) \div 2
       IN EncodeItems(batch, from, mid) \o EncodeItems(batch, mid + 1, to)

\* The frame of a batch.
EncodeBatch(batch) ==
  <<DP_BATCH>> \o U32Bytes(LengthOf(Len(batch)).hi, LengthOf(Len(batch)).lo)
    \o U32Bytes(Len(batch) \div Half, Len(batch) % Half) \o EncodeItems(batch, 1, Len(batch))

\* What a reader of the frame takes from the four bytes that begin at byte
\* at: LENGTH begins at byte 2, COUNT at byte 6.
FrameU32(frame, at) == FromWireAt([i \in 1..4 |-> frame[at + 4 - i]], 1)

\* Batches of a few DPs, of any DPs the lanes find, and the full batch.
MaxWireCount == 3
WireBatches ==
  UNION {[1..n -> {NewDP(p, k) : p \in Lanes, k \in 1..MaxItems}] : n \in 0..MaxWireCount}
    \cup {[i \in 1..BATCH_SIZE |-> NewDP(1 + (i % NLanes), i)]}

\* NetworkThread holds a batch.
WireBatch(batch) ==
  /\ npc = "off"
  /\ dps' = batch
  /\ npc' = "send"
  /\ UNCHANGED <<buildvars, servervars, walkvars, qvars, mutex, notEmpty, lanevars,
                 cpc, threadIds, gpuIds, argvars, timer, result, ret, mpc, histvars,
                 networkThreadRunning, sends, atStop, nextPush>>

\* SendToServer builds the frame of the batch.
WireEncode ==
  /\ npc = "send"
  /\ sends' = Append(sends, [frame |-> EncodeBatch(dps), count |-> Len(dps)])
  /\ npc' = "loop"
  /\ UNCHANGED <<buildvars, servervars, walkvars, qvars, mutex, notEmpty, lanevars,
                 cpc, outvars, argvars, timer, result, ret, mpc, histvars,
                 networkThreadRunning, atStop, nextPush>>

NextWire ==
  \/ \E batch \in WireBatches : WireBatch(batch)
  \/ WireEncode

SpecWire == Init /\ [][NextWire]_vars

(***************************************************************************)
(* What the callers have received.  After a return the output vectors      *)
(* still hold the last batch, which is then part of delivered.             *)
(***************************************************************************)
Returned == IF cpc = "idle" THEN delivered ELSE delivered \o Batch

\* The DPs of lane p in a sequence of DPITEMs, in the order of the sequence.
OfLane(s, p) == SelectSeq(s, LAMBDA it : it.dp.lane = p)

Min(a, b) == IF a < b THEN a ELSE b

(***************************************************************************)
(* C1  Pipeline conservation: in every state where no thread is inside a   *)
(* critical section of the queue mutex, totalPushed equals totalPopped     *)
(* plus the number of items in the queue.                                  *)
(***************************************************************************)
C1_Conservation ==
  mutex = FREE => totalPushed = totalPopped + Len(queue)

\* Items pushed by both calls, some popped, some still queued, a push_batch
\* of two items among them, the mutex free.
C1_Witness ==
  /\ mutex = FREE
  /\ totalPushed = MaxItems
  /\ totalPopped >= 1
  /\ queue # <<>>
  /\ shutdown

PushedItem(dp) == DPITEM(dp, dp.lane, LaneGpu(dp.lane))

C8_BatchShape ==
  /\ Len(threadIds) = Len(dps) /\ Len(gpuIds) = Len(dps)
  /\ \A i \in 1..Len(dps) : Batch[i] = PushedItem(dps[i])
  /\ cpc # "idle" => Len(dps) <= maxCount
  /\ cpc = "ret" => (ret <=> Len(dps) > 0)

\* A full batch whose second item arrived in a batching round: the call
\* found one item when it took the mutex.
C8_Witness ==
  /\ cpc = "ret"
  /\ ret
  /\ Len(dps) = MaxCount /\ maxCount = MaxCount
  /\ Len(qAtLock) = 1
  /\ dps[1].lane # dps[MaxCount].lane

(***************************************************************************)
(* C3  push / push_batch never blocks beyond acquiring the queue mutex:    *)
(* the lock step of a push is enabled whenever the mutex is free, whatever *)
(* the queue depth, the shutdown flag and the state of the sender; the     *)
(* sender holds the mutex neither while it waits in pop_batch nor outside  *)
(* pop_batch (while it sends); and under fair mutex hand-off every push    *)
(* call that has started completes.                                        *)
(***************************************************************************)
SenderOutsideCritical ==
  cpc \in {"idle", "lock", "wait_first", "wait_batch", "woke_first",
           "woke_batch", "ret"} => mutex # NetId

PushLockEnabled ==
  \A p \in Lanes : pc[p] = "lock" /\ mutex = FREE => ENABLED PushLock(p)

C3_PushNeverBlocks ==
  /\ [](SenderOutsideCritical /\ PushLockEnabled)
  /\ \A p \in Lanes : (pc[p] = "lock") ~> (pc[p] = "idle")

\* A lane takes the mutex while shutdown is set, the queue is non-empty and
\* the sender is inside a timed wait or on its way out of one.
C3_Witness ==
  /\ \E p \in Lanes : pc[p] = "enq"
  /\ shutdown
  /\ queue # <<>>
  /\ cpc \in {"wait_first", "wait_batch", "woke_first", "woke_batch"}

(***************************************************************************)
(* C4  After requestShutdown() has returned, a pop_batch call never waits: *)
(* it returns the first min(maxCount, depth) items of the queue it found,  *)
(* in queue order, and returns false with empty vectors when it found the  *)
(* queue empty.                                                            *)
(***************************************************************************)
C4_NoWaitAfterShutdown ==
  callAfterShutdown =>
    /\ cpc \notin {"wait_first", "wait_batch", "woke_first", "woke_batch"}
    /\ cpc = "ret" =>
         /\ Batch = SubSeq(qAtLock, 1, Min(maxCount, Len(qAtLock)))
         /\ ret <=> qAtLock # <<>>
         /\ qAtLock = <<>> => dps = <<>> /\ threadIds = <<>> /\ gpuIds = <<>>

\* A call made after shutdown returns maxCount items and leaves the rest queued.
C4_Witness ==
  /\ callAfterShutdown
  /\ cpc = "ret"
  /\ ret
  /\ Len(dps) = maxCount
  /\ queue # <<>>

(***************************************************************************)
(* C7  With the queue empty and no shutdown, pop_batch waits at most       *)
(* timeout for the first item: the time already waited plus the time left  *)
(* on the deadline never exceeds timeout, and a call that returns on the   *)
(* timeout returns false with the three vectors empty and totalPopped as   *)
(* it was; a false return without shutdown is a return on that timeout.    *)
(***************************************************************************)
C7_FirstItemTimeout ==
  /\ waited <= timeout
  /\ cpc = "wait_first" => waited + timer <= timeout
  /\ cpc = "ret" /\ exitPath = "first_timeout" =>
       /\ ~ret
       /\ dps = <<>> /\ threadIds = <<>> /\ gpuIds = <<>>
       /\ totalPopped = poppedAtCall
       /\ qAtLock = <<>>
  /\ cpc = "ret" /\ ~ret /\ ~shutdown => exitPath = "first_timeout"

\* A call that waited the whole timeout and returned false.
C7_Witness ==
  /\ cpc = "ret"
  /\ exitPath = "first_timeout"
  /\ timeout = MaxTimeout
  /\ waited = MaxTimeout
  /\ ~shutdown

BatchDPs(b) == {b[j].dp : j \in 1..Len(b)}
HandedDPs == UNION {BatchDPs(sends[i].batch) : i \in 1..Len(sends)}
SentOkDPs == UNION {BatchDPs(sends[i].batch) : i \in {k \in 1..Len(sends) : sends[k].ok}}
FailedDPs == UNION {BatchDPs(sends[i].batch) : i \in {k \in 1..Len(sends) : ~sends[k].ok}}
HeldDPs == {dps[i] : i \in 1..Len(dps)}

C6_FailedBatchKept ==
  \A d \in FailedDPs : d \in SentOkDPs \/ d \in HeldDPs

(***************************************************************************)
(* C6  (amended)  After a send failure the client does not keep the batch: *)
(* it reconnects and goes on with the next pop_batch call, which clears    *)
(* the vectors, so once that call has begun no DP of a failed send is held *)
(* any more; every DP is handed to SendToServer at most once, and a DP of  *)
(* a failed send is never sent successfully later.                         *)
(***************************************************************************)
C6_FailedBatchDropped ==
  /\ npc = "popping" => FailedDPs \cap HeldDPs = {}
  /\ FailedDPs \cap SentOkDPs = {}
  /\ \A i, j \in 1..Len(sends) :
       i < j => BatchDPs(sends[i].batch) \cap BatchDPs(sends[j].batch) = {}

\* A send failed, the thread reconnected, and a later batch was sent.
C6_Witness ==
  \E i, j \in 1..Len(sends) :
    /\ i < j
    /\ ~sends[i].ok
    /\ sends[j].ok

C11_Throttled ==
  Len(queue) > SoftBound =>
    \A p \in Lanes : ~ENABLED LanePush(p) /\ ~ENABLED PushBatchCall(p, 1)

\* C11 (amended): the queue is unbounded and nothing throttles a lane.  An
\* idle lane that has a DP to deliver can start push and push_batch whatever
\* the depth of the queue, above the soft bound included.
C11_NoBackpressure ==
  \A p \in Lanes :
    (pc[p] = "idle" /\ Producing) =>
      ENABLED LanePush(p) /\ ENABLED PushBatchCall(p, 1)

\* Nothing was popped, the queue is above the soft bound with a DP of lane p
\* at its head, and lane p, whose earlier push put it there, is inside its
\* next push with the mutex held, about to enqueue.
C11_Witness ==
  /\ totalPopped = 0 /\ cpc = "idle"
  /\ Len(queue) > SoftBound
  /\ \E p \in Lanes : pc[p] = "enq" /\ mutex = p /\ queue[1].dp.lane = p

(***************************************************************************)
(* C12: herd parity end to end.                                            *)
(***************************************************************************)
\* The DP carries the index of the kangaroo that emitted it.
KIdxKept(dp) == dp.kIdx = KangarooOf(dp.lane, dp.seq)

AddsOf(x) == SelectSeq(addLog, LAMBDA r : r.dp.x = x)

\* The collision events emitted for point x.
EventsOf(x) == SelectSeq(emitted, LAMBDA ev : ev.x = x)

\* The finished Adds hold DPs of both herds for x.
BothHerds(x) ==
  \E i, j \in 1..Len(addLog) :
    /\ addLog[i].dp.x = x /\ addLog[j].dp.x = x
    /\ KType(addLog[i].dp.kIdx) # KType(addLog[j].dp.kIdx)

\* No tame and wild DP of x in the finished Adds have the same distance.
HerdsDifferInDist(x) ==
  \A i, j \in 1..Len(addLog) :
    (/\ addLog[i].dp.x = x /\ addLog[j].dp.x = x
     /\ KType(addLog[i].dp.kIdx) # KType(addLog[j].dp.kIdx))
      => addLog[i].dp.d # addLog[j].dp.d

\* The entry an Add found stored under its x.
StoredOf(r) == CHOOSE e \in r.before : TRUE

C14_Idempotent ==
  \A dp \in ServerDPs : AddTo(AddTo(Store, dp), dp) = AddTo(Store, dp)

\* C14 (amended): Add(dp); Add(dp) leaves the table as a single Add(dp)
\* does.  Counter and events are those of a single Add too, unless dp
\* collides with the stored entry and is not kept: a DP of the other herd
\* emits its event at each Add, a same-herd DP that is not the shorter one
\* is counted at each Add.
C14_IdempotentTable ==
  \A dp \in ServerDPs :
    LET once == AddTo(Store, dp)
        twice == AddTo(once, dp)
        hit == Lookup(table, dp)
        stored == table[Hash(dp.x)][hit.at]
    IN /\ twice.table = once.table
       /\ (\/ hit.status # ADD_COLLISION
           \/ (SameHerd(stored.kType, KType(dp.kIdx)) /\ dp.d < stored.d))
            => twice = once
       /\ (hit.status = ADD_COLLISION /\ ~SameHerd(stored.kType, KType(dp.kIdx)))
            => /\ Len(once.emitted) = Len(emitted) + 1
               /\ Len(twice.emitted) = Len(emitted) + 2
               /\ twice.count = once.count
       /\ (/\ hit.status = ADD_COLLISION
           /\ SameHerd(stored.kType, KType(dp.kIdx)) /\ dp.d > stored.d)
            => /\ twice.count = once.count + 1
               /\ twice.emitted = once.emitted

\* The same DP was added twice in a row, as a first entry and then as a
\* duplicate, and the store is where a single Add would have left it.
C14_Witness ==
  /\ Len(addLog) >= 2
  /\ addLog[1].dp = addLog[2].dp
  /\ addLog[1].result = ADD_OK
  /\ addLog[2].status = ADD_DUPLICATE
  /\ addLog[2].events = 0 /\ addLog[2].counted = 0
  /\ addLog[2].after = addLog[1].after

\* C15: an Add that finds x stored by the same herd with another distance
\* answers SAME_HERD_DUPLICATE, adds one to the same-herd counter, emits no
\* event and leaves one entry for x, with the smaller of the two distances.
C15_SameHerdCoalescing ==
  \A i \in 1..Len(addLog) :
    LET r == addLog[i]
    IN (/\ r.before # {}
        /\ StoredOf(r).kType = KType(r.dp.kIdx)
        /\ StoredOf(r).d # r.dp.d)
         => /\ r.result = SAME_HERD_DUPLICATE
            /\ r.counted = 1
            /\ r.events = 0
            /\ Cardinality(r.after) = 1
            /\ \A e \in r.after :
                 /\ e.x = r.dp.x
                 /\ e.kType = KType(r.dp.kIdx)
                 /\ e.d = Min(StoredOf(r).d, r.dp.d)

\* A tame DP was stored with the longer distance, a tame DP of the same
\* point came with the shorter one, and the entry now holds the shorter.
C15_Witness ==
  \E i \in 1..Len(addLog) :
    LET r == addLog[i]
    IN /\ r.before # {}
       /\ StoredOf(r).kType = KType(r.dp.kIdx)
       /\ r.dp.d < StoredOf(r).d
       /\ r.result = SAME_HERD_DUPLICATE
       /\ collisionInSameHerd >= 1
       /\ \A e \in r.after : e.d = r.dp.d

Suffix(x) == x \div HashSize

\* C17: the entries of a bucket are strictly increasing by x-suffix (and
\* belong to the bucket), and no two entries of the store hold the same x.
C17_SortedUnique ==
  /\ \A h \in Buckets :
       /\ \A i \in 1..Len(table[h]) : Hash(table[h][i].x) = h
       /\ \A i \in 1..(Len(table[h]) - 1) :
            Suffix(table[h][i].x) < Suffix(table[h][i + 1].x)
  /\ \A x \in XValues : Cardinality(EntriesOf(table, x)) <= 1
  /\ \A h \in Buckets : \A i, j \in 1..Len(table[h]) :
       table[h][i].x = table[h][j].x => i = j

\* A bucket holds two entries, and the one added second has the smaller x:
\* it was inserted in front of the first.
C17_Witness ==
  \E h \in Buckets :
    /\ Len(table[h]) = 2
    /\ Len(addLog) = 2
    /\ addLog[1].dp.x = table[h][2].x
    /\ addLog[2].dp.x = table[h][1].x

(***************************************************************************)
(* C18: key recovery.                                                      *)
(***************************************************************************)
\* C18 as stated: at creation and after every jump a tame kangaroo is at
\* dist * G and a wild one at P + (dist + wildOffset) * G.
C18_StatedInvariant ==
  /\ \A k \in Tames : kang[k].pos = Point(kang[k].d)
  /\ \A k \in Wilds : kang[k].pos = PointAdd(P, kang[k].d + WildOffset)

\* C18 (amended): at creation and after every jump a tame kangaroo is at
\* dist * G and a wild one at P + (dist - wildOffset) * G; so when a tame
\* kangaroo T and a wild kangaroo W are on the same point, the key
\* k = (T.dist - W.dist + wildOffset) mod n satisfies k * G = P.
C18_KeyRecovery ==
  /\ \A k \in Tames : kang[k].pos = Point(kang[k].d)
  /\ \A k \in Wilds : kang[k].pos = PointAdd(PointSub(P, WildOffset), kang[k].d)
  /\ \A T \in Tames, W \in Wilds :
       kang[T].pos = kang[W].pos => CheckKey(CandidateKey(kang[T], kang[W]))

\* A tame and a wild kangaroo that have both jumped, through more than the
\* whole group together, stand on the same point.
C18_Witness ==
  \E T \in Tames, W \in Wilds :
    /\ kang[T].pos = kang[W].pos
    /\ kang[T].d > MaxStart
    /\ kang[W].d > 0
    /\ kang[T].d + kang[W].d > GroupOrder

(***************************************************************************)
(* C19, C20: the key check.                                                *)
(***************************************************************************)
\* The last key check made.
LastCheck == checked[Len(checked)]

\* C19: the search is ended only by a key check that verified k * G = P, and
\* k is the key kept; once ended it stays ended with the same key and no
\* further check or reset; and every handler stops in the end.
C19_FoundVerified ==
  /\ [](IF endOfSearch
          THEN /\ checked # <<>> /\ LastCheck.ok /\ LastCheck.k = foundKey
               /\ Point(foundKey) = P
          ELSE foundKey = NoKey)
  /\ [][endOfSearch => /\ endOfSearch'
                       /\ foundKey' = foundKey
                       /\ checked' = checked
                       /\ resets' = resets]_vars
  /\ (endOfSearch ~> (\A t \in Handlers : hpc[t] = "stopped"))

\* The key was found and every handler has stopped.
C19_Witness ==
  /\ endOfSearch
  /\ Point(foundKey) = P
  /\ \A t \in Handlers : hpc[t] = "stopped"

\* The kangaroos reset because of a wrong collision.
WrongKIdxs == {checked[i].event.kIdx : i \in {j \in 1..Len(checked) : ~checked[j].ok}}

\* C20: a collision whose key fails the check does not end the search and
\* is no error: the kangaroo that sent the DP is reset, the event is
\* consumed, and the handlers go on taking DPs, so that only a later
\* verified collision ends the search.
C20_WrongCollision ==
  /\ \A i \in 1..Len(checked) :
       ~checked[i].ok =>
          /\ Point(checked[i].k) # P
          /\ checked[i].event.kIdx \in resets
          /\ (i = Len(checked) => ~endOfSearch)
  /\ resets = WrongKIdxs
  /\ \A i \in 1..Len(checked) : checked[i].event = emitted[i]
  /\ events = SubSeq(emitted, Len(checked) + 1, Len(emitted))
  /\ (~endOfSearch /\ AddsBegun < MaxAdds) =>
       \A t \in Handlers :
         hpc[t] = "recv" => \A dp \in ServerDPs : ENABLED HandlerRecv(t, dp)

\* A wrong collision reset a kangaroo, the search went on, and the next
\* collision gave the key.
C20_Witness ==
  /\ Len(checked) = 2
  /\ ~checked[1].ok /\ checked[1].event.kIdx \in resets
  /\ checked[2].ok
  /\ endOfSearch /\ Point(foundKey) = P

(***************************************************************************)
(* C21: reconnect and the store.                                           *)
(***************************************************************************)
\* The DPs of send i that reached the server, and those that did not.
ReceivedOf(i) == {sends[i].batch[j].dp : j \in 1..sends[i].sent}
UnsentOf(i) == BatchDPs(sends[i].batch) \ ReceivedOf(i)
ReceivedDPs == UNION {ReceivedOf(i) : i \in 1..Len(sends)}
UnsentDPs == UNION {UnsentOf(i) : i \in 1..Len(sends)}

\* The entries of the store that hold the point of dp.
StoredFor(dp) == EntriesOf(table, XOf(dp))

\* Everything in the store.
AllStored == UNION {{table[h][i] : i \in 1..Len(table[h])} : h \in Buckets}

\* The client is done: every lane has returned from its push, the queue is
\* empty and NetworkThread holds no batch.
ClientDone ==
  /\ \A p \in Lanes : pc[p] = "idle"
  /\ queue = <<>>
  /\ npc \in {"loop", "exited"}

\* C21 as stated: after a send that broke and a reconnect, the server ends
\* with exactly one stored entry for each DP the client enqueued.
C21_ExactlyOnce ==
  ClientDone => \A dp \in Pushed : Cardinality(StoredFor(dp)) = 1

\* C21 (amended): the client does not retransmit.  The store holds exactly
\* one entry for each DP that reached the server, that is for every DP of a
\* successful send and for the transmitted part of a failed one, and nothing
\* else: no entry is duplicated and none is dropped when a connection
\* breaks.  No DP is put on the wire twice, so the server never sees a
\* resent DP, and the DPs of a failed batch that had not been transmitted
\* are never stored.
C21_StoredOnceNoResend ==
  /\ \A dp \in ReceivedDPs :
       /\ Cardinality(StoredFor(dp)) = 1
       /\ StoredFor(dp) = {ENTRY(StoreDP(dp))}
  /\ Cardinality(AllStored) = Cardinality(ReceivedDPs)
  /\ \A i \in 1..Len(sends) : sends[i].ok => UnsentOf(i) = {}
  /\ \A i, j \in 1..Len(sends) :
       i < j => BatchDPs(sends[i].batch) \cap BatchDPs(sends[j].batch) = {}
  /\ \A dp \in UnsentDPs : StoredFor(dp) = {}
  /\ collisionInSameHerd = 0 /\ emitted = <<>>

\* A send broke after one DP of a batch of two, the client reconnected and
\* finished: the server holds the first DP and not the second.
C21_Witness ==
  /\ ClientDone
  /\ \E i \in 1..Len(sends) :
       /\ ~sends[i].ok
       /\ Len(sends[i].batch) = 2
       /\ sends[i].sent = 1
       /\ StoredFor(sends[i].batch[1].dp) # {}
       /\ StoredFor(sends[i].batch[2].dp) = {}

(***************************************************************************)
(* C22: the size of DPs on the wire.                                       *)
(***************************************************************************)
\* The bytes of record i of a frame.
FrameItem(frame, i) == SubSeq(frame, 10 + ITEM_SIZE * (i - 1), 9 + ITEM_SIZE * i)

\* C22: every DP record is exactly 68 bytes, the sum of its four fields and
\* 17 words of 4 bytes with no remainder; the LENGTH field of a DP_BATCH
\* holds 4 + 68 * COUNT and the frame has 1 + 4 + 4 + 68 * COUNT bytes; and
\* LENGTH does not go beyond its 32 bits for any COUNT up to the 1000 DPs a
\* batch carries (it does so from COUNT = 63161284 on; this part is about the
\* function alone and is evaluated before a batch exists).
C22_WireSize ==
  /\ ITEM_SIZE = XBytes + DistBytes + KIdxBytes + PadBytes
  /\ ITEM_SIZE32 * 4 = ITEM_SIZE
  /\ \A i \in 1..Len(dps) : Len(EncodeItem(dps[i])) = ITEM_SIZE
  /\ \A k \in 1..Len(sends) :
       LET frame == sends[k].frame
           count == sends[k].count
       IN /\ count <= BATCH_SIZE
          /\ FrameU32(frame, 6) = count
          /\ FrameU32(frame, 2) = 4 + 68 * count
          /\ Len(frame) = 1 + 4 + 4 + 68 * count
          /\ Len(frame) = 1 + 4 + FrameU32(frame, 2)
          /\ \A i \in 1..count : FrameItem(frame, i) = EncodeItem(dps[i])
          /\ ~LengthOf(count).overflow
  /\ npc = "off" =>
       /\ \A count \in 0..BATCH_SIZE : ~LengthOf(count).overflow
       /\ ~LengthOf(63161283).overflow /\ LengthOf(63161284).overflow

\* The frame of a batch of two DPs of different lanes has been built.
C22_Witness ==
  /\ Len(sends) = 1
  /\ sends[1].count = 2
  /\ dps[1].lane # dps[2].lane
  /\ Len(sends[1].frame) = 145
  /\ FrameU32(sends[1].frame, 2) = 140

(***************************************************************************)
(* C23: no loss and no duplication in the queue.                           *)
(***************************************************************************)
\* Every item that has left the lanes' hands: returned by pop_batch, or held
\* in the output vectors of the call in progress, or still in the queue.
AllItems == Returned \o queue

\* C23: for any interleaving of the lanes, the consumer and requestShutdown,
\* no item is returned twice, neither by two pop_batch calls nor twice by
\* one, nor returned and still queued; whenever the mutex is free, the items
\* whose push has returned are exactly the items returned so far plus the
\* items in the queue; and a pop_batch that returns false (on its timeout or
\* on shutdown) has taken nothing.
C23_NoLossNoDuplication ==
  /\ \A i, j \in 1..Len(AllItems) : i < j => AllItems[i] # AllItems[j]
  /\ mutex = FREE =>
       {PushedItem(dp) : dp \in Pushed} = {AllItems[i] : i \in 1..Len(AllItems)}
  /\ cpc = "ret" /\ ~ret =>
       /\ dps = <<>>
       /\ totalPopped = poppedAtCall
       /\ Returned = delivered

\* Both lanes have pushed, one item was returned by an earlier call, and a
\* later call has returned false on its timeout while the other item, pushed
\* in the meantime, is in the queue; shutdown has been requested.
C23_Witness ==
  /\ \A p \in Lanes : pc[p] = "idle"
  /\ cpc = "ret" /\ ~ret /\ exitPath = "first_timeout"
  /\ Len(delivered) = 1
  /\ Len(queue) = 1
  /\ queue[1].dp.lane # delivered[1].dp.lane
  /\ mpc = "done"

(***************************************************************************)
(* C24: every item is eventually delivered.                                *)
(***************************************************************************)
\* The DPs that pop_batch calls have returned to the caller.
DeliveredDPs == {delivered[i].dp : i \in 1..Len(delivered)}

\* C24: with a consumer that keeps calling pop_batch with maxCount >= 1,
\* every DP whose push or push_batch has returned is eventually returned to
\* the caller by some pop_batch call, whenever it was pushed: during a
\* batching wait, when a wait times out, after requestShutdown.
C24_EventuallyDelivered ==
  \A p \in Lanes : \A k \in 1..MaxItems :
    (NewDP(p, k) \in Pushed) ~> (NewDP(p, k) \in DeliveredDPs)

\* A call that began after requestShutdown had returned comes back with the
\* last of the DPs: all DPs of the run are now with the caller, the earlier
\* ones from earlier calls.
C24_Witness ==
  /\ cpc = "ret" /\ ret
  /\ callAfterShutdown
  /\ Len(delivered) >= 1
  /\ Len(delivered) + Len(dps) = MaxItems
  /\ Cardinality(Pushed) = MaxItems

(***************************************************************************)
(* C25: requestShutdown releases a blocked consumer.                       *)
(***************************************************************************)
\* With shutdown set the consumer is not blocked: either it is outside the
\* timed waits, or (WIN64) the event it waits on is signalled.
NotBlockedAfterShutdown ==
  shutdown /\ cpc \in WaitStates => win64 /\ notEmpty

\* requestShutdown itself wakes a waiting consumer, and a wait that goes on
\* after shutdown ends as signalled, with no time passed and no timeout.
ShutdownWakes ==
  /\ (~shutdown /\ shutdown' /\ cpc \in WaitStates) =>
       \/ win64 /\ notEmpty' /\ cpc' = cpc
       \/ ~win64 /\ cpc' = Woken(cpc) /\ result' = WAIT_OBJECT_0
  /\ (shutdown /\ cpc \in WaitStates) =>
       /\ timer' = timer
       /\ cpc' # cpc => cpc' = Woken(cpc) /\ result' = WAIT_OBJECT_0

\* What the call returns on its two shutdown exits.
ShutdownReturns ==
  /\ cpc = "ret" /\ exitPath = "shutdown_empty" =>
       shutdown /\ ~ret /\ dps = <<>> /\ mutex # NetId
  /\ cpc = "ret" /\ exitPath = "shutdown" =>
       shutdown /\ ret /\ dps # <<>> /\ mutex # NetId

\* C25: when requestShutdown is called while the consumer waits for the
\* first item or in the batching window, the consumer wakes at once, without
\* its timeout expiring, and returns: false when it holds no item, the items
\* collected so far otherwise.
C25_ShutdownReleases ==
  /\ [](NotBlockedAfterShutdown /\ ShutdownReturns)
  /\ [][ShutdownWakes]_vars
  /\ (shutdown /\ cpc \in {"wait_first", "wait_batch", "woke_first", "woke_batch"})
       ~> (cpc = "ret")

\* The consumer waits for the first item on a queue that nothing was pushed
\* to, with its whole timeout ahead, and requestShutdown has set the event.
C25_Witness ==
  /\ shutdown /\ mpc = "done"
  /\ win64 /\ notEmpty
  /\ cpc = "wait_first"
  /\ totalPushed = 0
  /\ timeout = MaxTimeout /\ timer = timeout /\ waited = 0

(***************************************************************************)
(* C26: pop_batch reports empty only when the queue is empty.              *)
(***************************************************************************)
\* The next step of the consumer unlocks the mutex and returns false: it is
\* back from the wait for the first item with ETIMEDOUT and can take the
\* mutex, or it holds the mutex and sees shutdown and an empty queue.
ReturnsFalseNext ==
  \/ cpc = "woke_first" /\ result = ETIMEDOUT /\ mutex = FREE
  \/ cpc = "first" /\ mutex = NetId /\ ShutdownExit

\* C26: when pop_batch, called with maxCount >= 1, returns false, the queue
\* holds no item at the moment it gives the mutex back and returns, also
\* when a push happens just as the wait for the first item times out.
C26_FalseOnlyWhenEmpty ==
  ReturnsFalseNext => queue = <<>>

(***************************************************************************)
(* C27: push_batch is atomic with respect to the other queue operations.   *)
(***************************************************************************)
\* The position of a DP of the batch lane inside its push_batch call.
PlaceInBatch(dp) == (dp.seq - 1) % BatchLen

\* C27: the items of one push_batch call enter the queue under one hold of
\* the mutex, in the order of the input vector: when the loop is over they
\* are the last items of the queue and the lane holds the mutex.  In dequeue
\* order (returned batches, then the output vectors, then the queue) they
\* are therefore next to each other and in vector order, with no item of
\* another lane's push or push_batch between them.
C27_PushBatchAtomic ==
  /\ \A p \in Lanes :
       pc[p] \in {"enq", "count"} => mutex = p
  /\ \A p \in Lanes :
       pc[p] = "count" =>
         /\ Len(queue) >= Len(pending[p])
         /\ \A i \in 1..Len(pending[p]) :
              queue[Len(queue) - Len(pending[p]) + i] = PushedItem(pending[p][i])
  /\ \A i \in 1..Len(AllItems) :
       LET dp == AllItems[i].dp
       IN dp.lane = BatchLane =>
            IF PlaceInBatch(dp) = 0
            THEN \A j \in 1..(BatchLen - 1) :
                   /\ i + j <= Len(AllItems)
                   /\ AllItems[i + j].dp = NewDP(BatchLane, dp.seq + j)
            ELSE /\ i > 1
                 /\ AllItems[i - 1].dp = NewDP(BatchLane, dp.seq - 1)

\* pop_batch has split a push_batch at the maxCount limit: an earlier call
\* returned a batch that ends with the first item of a push_batch call, the
\* call that returns now begins with the second; an item of another lane is
\* behind them.
C27_Witness ==
  /\ cpc = "ret" /\ ret
  /\ delivered # <<>> /\ dps # <<>>
  /\ delivered[Len(delivered)].dp.lane = BatchLane
  /\ PlaceInBatch(delivered[Len(delivered)].dp) = 0
  /\ dps[1] = NewDP(BatchLane, delivered[Len(delivered)].dp.seq + 1)
  /\ \E i \in 1..Len(queue) : queue[i].dp.lane # BatchLane

(***************************************************************************)
(* C28: the queue mutex is released on every exit path.                    *)
(***************************************************************************)
\* The mutex is held exactly by a thread between its lock and its unlock.
HolderInside ==
  /\ mutex \in {FREE, NetId} \cup Lanes
  /\ \A p \in Lanes : mutex = p <=> pc[p] \in {"enq", "count"}
  /\ mutex = NetId <=> cpc \in {"first", "drain"}

\* A thread that has returned from a queue operation does not hold it.
ReturnedWithoutMutex ==
  /\ \A p \in Lanes : pc[p] = "idle" => mutex # p
  /\ cpc = "ret" /\ exitPath \in {"full", "shutdown", "batch_timeout",
                                  "first_timeout", "shutdown_empty"}
       => mutex # NetId
  /\ cpc = "idle" => mutex # NetId
  /\ npc \in {"loop", "send", "reconnect", "exited"} => mutex # NetId
  /\ mpc \in {"done", "joined"} => mutex # MainId

\* The holder of the mutex has a step to take, and a free mutex can be
\* taken by every thread that waits for it.
HolderCanRun ==
  /\ \A p \in Lanes :
       mutex = p => ENABLED (PushEnqueue(p) \/ PushSignalUnlock(p))
  /\ mutex = NetId => ENABLED (PopFirstTest \/ PopItem \/ PopBatchTest)

WaiterCanLock ==
  mutex = FREE =>
    /\ \A p \in Lanes : pc[p] = "lock" => ENABLED PushLock(p)
    /\ cpc = "lock" => ENABLED PopLock
    /\ cpc = "woke_first" => ENABLED PopWakeFirst
    /\ cpc = "woke_batch" => ENABLED PopWakeBatch
    /\ mpc = "lock" => ENABLED ShutdownSet

\* C28: whenever push, push_batch, pop_batch (on each of its returns),
\* empty or requestShutdown has returned, the calling thread does not hold
\* the queue mutex; the mutex is held only inside a critical section, whose
\* owner can always take its next step, and a free mutex can be taken by
\* every thread that waits for it: in no reachable state are all threads
\* blocked on the mutex.
C28_MutexReleased ==
  /\ HolderInside
  /\ ReturnedWithoutMutex
  /\ HolderCanRun
  /\ WaiterCanLock

\* requestShutdown has returned, pop_batch is returning on its
\* shutdown-and-empty path, one lane is back from a push and another lane
\* waits for the mutex, which is free.
C28_Witness ==
  /\ mpc = "done"
  /\ cpc = "ret" /\ exitPath = "shutdown_empty"
  /\ mutex = FREE
  /\ \E p \in Lanes : pc[p] = "idle" /\ produced[p] > 0
  /\ \E p \in Lanes : pc[p] = "lock"

============================================================================
